---- MODULE Spec2Model ----
(***************************************************************************)
(* Recording-to-upload pipeline of the VocaFuse web SDK.                   *)
(*                                                                         *)
(* VoiceRecorder (recorder-controller) drives AudioRecorder (recorder.ts)  *)
(* and VocaFuseUploader (upload.ts).  Every action is one run-to-completion*)
(* segment of JavaScript: the synchronous part of a call, or the code that *)
(* runs when a platform task (getUserMedia settling, a MediaRecorder       *)
(* event, a timer, a network completion) is delivered, up to the next      *)
(* await that waits for a platform task.                                   *)
(*                                                                         *)
(* Time is counted in units of 50 ms.                                      *)
(***************************************************************************)
EXTENDS Integers, Sequences, FiniteSets, TLC

\* ---- bounds of the exploration ----
MaxCalls == 3
MaxTime == 6
MaxDurationLimit == 3
MaxParts == 2
MaxChunks == 1
MaxTokenCalls == 3
MaxTokenTicks == 1

\* ---- program constants (50 ms units) ----
TimerInterval == 2
FlushDelay == 2

\* RecorderState enum of recorder.ts
INACTIVE == "inactive"
RECORDING == "voicenote"
PAUSED == "paused"

VARIABLES
  \* VoiceRecorder
  state, duration, recordingResult, autoUpload, maxDuration,
  \* AudioRecorder
  mediaRecorder, mediaStream, chunks, startTime, pausedTime,
  progressTimer, timerDue,
  \* platform objects: MediaRecorder.state and MediaStream tracks, by id
  mrState, tracksLive, now,
  \* suspended and settled calls
  calls, autoStop,
  \* TokenManager cache, requests sent, callbacks observed
  cachedToken, issued, onErrorLog, unhandled, autoStopElapsed,
  \* TokenManager: fields, callers of getToken()/refreshToken(), requests
  \* to the token endpoint
  actualJwtToken, tokenCache, refreshPromise, tokenCalls, tokenFetches,
  \* HttpClient: configuration, the locals of one request() call, and the
  \* AbortController / timeout timer made by buildRequestOptions()
  retryOptions, request, controller,
  \* VocaFuseUploader: one upload() call and the PUT of each part
  upload, uploadParts

ctlVars == <<state, duration, recordingResult, autoUpload, maxDuration>>
audioVars == <<mediaRecorder, mediaStream, chunks, startTime, pausedTime,
               progressTimer, timerDue, mrState, tracksLive>>
netVars == <<cachedToken, issued, onErrorLog>>
vars == <<state, duration, recordingResult, autoUpload, maxDuration,
          mediaRecorder, mediaStream, chunks, startTime, pausedTime,
          progressTimer, timerDue, mrState, tracksLive, now,
          calls, autoStop, cachedToken, issued, onErrorLog, unhandled,
          autoStopElapsed,
          actualJwtToken, tokenCache, refreshPromise, tokenCalls, tokenFetches,
          retryOptions, request, controller, upload, uploadParts>>

tokVars == <<actualJwtToken, tokenCache, refreshPromise, tokenCalls, tokenFetches>>
\* the state of the components a recorder run does not step through
httpVars == <<retryOptions, request, controller>>
upVars == <<upload, uploadParts>>
auxVars == <<tokVars, httpVars, upVars>>
\* the recorder and uploader state, which the runs of the other components
\* leave alone
recVars == <<state, duration, recordingResult, autoUpload, maxDuration,
             mediaRecorder, mediaStream, chunks, startTime, pausedTime,
             progressTimer, timerDue, mrState, tracksLive,
             calls, autoStop, cachedToken, issued, onErrorLog, unhandled,
             autoStopElapsed>>

Ids == 1..MaxCalls

\* ---------------------------------------------------------------------
\* Call frames
\* ---------------------------------------------------------------------
Frame(op, pc, err, value, emitted) ==
  [op |-> op, pc |-> pc, err |-> err, value |-> value, mr |-> 0, due |-> 0,
   emitted |-> emitted, parts |-> <<>>, from |-> state, cause |-> "none"]

\* A continuation that is only waiting for the microtask queue: no platform
\* task can be delivered before it has run.
MicrotaskPending == \E i \in 1..Len(calls) : calls[i].pc = "cancelAwait"

\* ---------------------------------------------------------------------
\* AudioRecorder getters
\* ---------------------------------------------------------------------
AudioState == IF mediaRecorder = 0 THEN INACTIVE ELSE mrState[mediaRecorder]

currentDuration ==
  IF AudioState = INACTIVE THEN 0
  ELSE IF AudioState = PAUSED THEN pausedTime
  ELSE now - startTime

\* AudioRecorder.cleanup(): its body has no await, so it runs to completion
\* inside the segment that calls it.
cleanup ==
  /\ progressTimer' = FALSE
  /\ timerDue' = 0
  /\ tracksLive' = IF mediaStream = 0 THEN tracksLive
                   ELSE [tracksLive EXCEPT ![mediaStream] = FALSE]
  /\ mediaStream' = 0
  /\ mediaRecorder' = 0
  /\ chunks' = 0
  /\ startTime' = 0
  /\ pausedTime' = 0

\* ---------------------------------------------------------------------
\* Initial state: a freshly constructed VoiceRecorder
\* ---------------------------------------------------------------------
\* a TokenManager right after construction
TokenManagerNew ==
  /\ actualJwtToken = 0
  /\ tokenCache = <<>>
  /\ refreshPromise = 0
  /\ tokenCalls = <<>>
  /\ tokenFetches = <<>>

\* HttpClient constructed with its defaults, no request made
NoError == [name |-> "none", code |-> "none", retryable |-> FALSE, status |-> 0, kind |-> "none"]
\* a parsed response body as processResponse() sees it, and the envelope it
\* builds around one
RawBody(b) == [wrapped |-> FALSE, body |-> b, object |-> "", request_id |-> ""]
RequestIdle ==
  [pc |-> "idle", attempt |-> 0, maxAttempts |-> 0, timeout |-> 0, attemptStart |-> 0,
   lastError |-> NoError, sleepDue |-> 0, fetches |-> 0, sleeps |-> 0,
   received |-> [body |-> "none", requestId |-> ""], result |-> RawBody("none"),
   thrown |-> [error |-> NoError, context |-> {}, attempts |-> 0]]
ControllerNone == [aborted |-> FALSE, by |-> "none", timerArmed |-> FALSE, timerDue |-> 0, signal |-> FALSE]
DefaultRetryOptions == [maxRetries |-> 3, baseDelay |-> 1000, maxDelay |-> 10000, backoffFactor |-> 2]
HttpClientNew ==
  /\ retryOptions = DefaultRetryOptions
  /\ request = RequestIdle
  /\ controller = ControllerNone

\* VocaFuseUploader constructed, upload() not called
NoUploadError == [name |-> "none", code |-> "none", message |-> "none", cause |-> "none"]
NoPresign == [kind |-> "none", cause |-> "none", type |-> "none", url |-> FALSE, n |-> 0]
\* a percentage handed to the progress callback, as an exact fraction;
\* NoProgress: the callback has not been called
Percent(n) == [num |-> n, den |-> 1]
NoProgress == [num |-> -1, den |-> 1]
UploadIdle ==
  [pc |-> "idle", type |-> "none", err |-> NoUploadError, result |-> "none",
   onComplete |-> 0, onError |-> 0, completeArg |-> "none", errorArg |-> NoUploadError,
   putsIssued |-> 0, presigned |-> NoPresign, progress |-> NoProgress, loaded |-> <<>>]
UploaderNew ==
  /\ upload = UploadIdle
  /\ uploadParts = <<>>

AuxIdle == TokenManagerNew /\ HttpClientNew /\ UploaderNew

Init ==
  /\ AuxIdle
  /\ state = "idle"
  /\ duration = 0
  /\ recordingResult = <<>>
  /\ autoUpload \in {"undefined", "false"}
  /\ maxDuration \in 2..MaxDurationLimit
  /\ mediaRecorder = 0
  /\ mediaStream = 0
  /\ chunks = 0
  /\ startTime = 0
  /\ pausedTime = 0
  /\ progressTimer = FALSE
  /\ timerDue = 0
  /\ mrState = [i \in Ids |-> "none"]
  /\ tracksLive = [i \in Ids |-> FALSE]
  /\ now = 0
  /\ calls = <<>>
  /\ autoStop = [i \in Ids |-> [pc |-> "none", due |-> 0]]
  /\ cachedToken \in BOOLEAN
  /\ issued = {}
  /\ onErrorLog = {}
  /\ unhandled = {}
  /\ autoStopElapsed = -1

\* ---------------------------------------------------------------------
\* VoiceRecorder.start()
\* ---------------------------------------------------------------------
StartGuard_Restart(s) == s \in {"idle", "uploaded"}
StartGuard(s) == s = "idle"

\* synchronous part: guard, setState('recording'), AudioRecorder.start() up to
\* the await on getUserMedia
StartCall ==
  /\ UNCHANGED auxVars
  /\ Len(calls) < MaxCalls
  /\ UNCHANGED <<duration, recordingResult, autoUpload, maxDuration, now,
                 autoStop, netVars, unhandled, autoStopElapsed, mrState>>
  /\ IF ~StartGuard(state)
     THEN /\ calls' = Append(calls, Frame("start", "done", "RECORDING_FAILED", "none", <<>>))
          /\ UNCHANGED <<state, mediaRecorder, mediaStream, chunks, startTime,
                         pausedTime, progressTimer, timerDue, tracksLive>>
     ELSE /\ state' = "recording"
          /\ IF AudioState # INACTIVE
             THEN \* AudioRecorder.start() throws and its catch runs cleanup()
                  /\ cleanup
                  /\ calls' = Append(calls, Frame("start", "done", "RECORDING_FAILED", "none", <<"recording">>))
             ELSE /\ calls' = Append(calls, Frame("start", "getUserMedia", "none", "none", <<"recording">>))
                  /\ UNCHANGED <<mediaRecorder, mediaStream, chunks, startTime,
                                 pausedTime, progressTimer, timerDue, tracksLive>>

\* AudioRecorder.startProgressTimer()
startProgressTimer ==
  /\ progressTimer' = TRUE
  /\ timerDue' = now + TimerInterval

\* getUserMedia resolved: lines 108-128 of AudioRecorder.start(), then
\* VoiceRecorder.start() returns
GetUserMediaResolve(c) ==
  /\ UNCHANGED auxVars
  /\ c \in 1..Len(calls)
  /\ calls[c].op = "start" /\ calls[c].pc = "getUserMedia"
  /\ ~MicrotaskPending
  /\ mediaStream' = c
  /\ tracksLive' = [tracksLive EXCEPT ![c] = TRUE]
  /\ mediaRecorder' = c
  /\ mrState' = [mrState EXCEPT ![c] = "recording"]
  /\ chunks' = 0
  /\ startTime' = now
  /\ pausedTime' = 0
  /\ startProgressTimer
  /\ calls' = [calls EXCEPT ![c].pc = "done", ![c].value = "void"]
  /\ UNCHANGED <<ctlVars, now, autoStop, netVars, unhandled, autoStopElapsed>>

\* classification of a failed microphone acquisition:
\* requestMicrophoneAccess() and the catch block of AudioRecorder.start()
StartErrorCode(name) ==
  IF name = "NotAllowedError" THEN "MICROPHONE_ACCESS_DENIED"
  ELSE IF name = "NotFoundError" THEN "RECORDING_NOT_SUPPORTED"
  ELSE IF name = "NotSupportedError" THEN "RECORDING_NOT_SUPPORTED"
  ELSE "UNKNOWN_ERROR"

\* what requestMicrophoneAccess() can be rejected with: getUserMedia's
\* NotAllowedError and NotFoundError, and the TypeError of reading
\* getUserMedia when navigator.mediaDevices is undefined (the environment
\* AudioRecorder.isSupported() reports as unsupported)
DomErrors == {"NotAllowedError", "NotFoundError", "TypeError"}

\* the failure leaves VoiceRecorder.start() through the await of line 71
StartFailed(c, name) ==
  /\ calls' = [calls EXCEPT ![c].pc = "done", ![c].err = StartErrorCode(name),
                            ![c].cause = name]
  /\ UNCHANGED ctlVars

\* getUserMedia rejected: catch block of AudioRecorder.start()
GetUserMediaReject(c, name) ==
  /\ UNCHANGED auxVars
  /\ c \in 1..Len(calls)
  /\ calls[c].op = "start" /\ calls[c].pc = "getUserMedia"
  /\ ~MicrotaskPending
  /\ cleanup
  /\ StartFailed(c, name)
  /\ UNCHANGED <<now, autoStop, netVars, unhandled, autoStopElapsed, mrState>>

\* getUserMedia resolved but the MediaRecorder constructor (line 111) throws
\* NotSupportedError: the stream was stored in line 108, cleanup() stops it
MediaRecorderUnsupported(c) ==
  /\ UNCHANGED auxVars
  /\ c \in 1..Len(calls)
  /\ calls[c].op = "start" /\ calls[c].pc = "getUserMedia"
  /\ ~MicrotaskPending
  /\ progressTimer' = FALSE
  /\ timerDue' = 0
  /\ mediaStream' = 0
  /\ mediaRecorder' = 0
  /\ chunks' = 0
  /\ startTime' = 0
  /\ pausedTime' = 0
  /\ StartFailed(c, "NotSupportedError")
  /\ UNCHANGED <<now, autoStop, netVars, unhandled, autoStopElapsed, mrState,
                 tracksLive>>

\* ---------------------------------------------------------------------
\* VoiceRecorder.stop()
\* ---------------------------------------------------------------------
StopGuard(s) == s = "recording"

\* synchronous part: guard, then the executor of AudioRecorder.stop()
\* (handleStop registered on the MediaRecorder, MediaRecorder.stop(),
\* stopProgressTimer())
StopCall ==
  /\ UNCHANGED auxVars
  /\ Len(calls) < MaxCalls
  /\ UNCHANGED <<ctlVars, mediaRecorder, mediaStream, chunks, startTime,
                 pausedTime, tracksLive, now, autoStop, netVars, unhandled,
                 autoStopElapsed>>
  /\ IF ~StopGuard(state) \/ AudioState = INACTIVE
     THEN /\ calls' = Append(calls, Frame("stop", "done", "RECORDING_FAILED", "none", <<>>))
          /\ UNCHANGED <<mrState, progressTimer, timerDue>>
     ELSE /\ calls' = Append(calls, [Frame("stop", "awaitStopEvent", "none", "none", <<>>)
                                       EXCEPT !.mr = mediaRecorder])
          /\ mrState' = [mrState EXCEPT ![mediaRecorder] = "inactive"]
          /\ progressTimer' = FALSE
          /\ timerDue' = 0

\* handleStop listeners waiting for the 'stop' event of MediaRecorder m
StopListeners(m) ==
  {i \in 1..Len(calls) : calls[i].pc = "awaitStopEvent" /\ calls[i].mr = m}

\* the platform delivers 'stop' on MediaRecorder m: each handleStop starts
\* its 100 ms wait (line 215)
MRStopEvent(m) ==
  /\ UNCHANGED auxVars
  /\ m \in Ids
  /\ mrState[m] = "inactive"
  /\ StopListeners(m) # {} \/ autoStop[m].pc = "awaitStopEvent"
  /\ ~MicrotaskPending
  /\ calls' = [i \in 1..Len(calls) |->
                 IF i \in StopListeners(m)
                 THEN [calls[i] EXCEPT !.pc = "flush", !.due = now + FlushDelay]
                 ELSE calls[i]]
  /\ autoStop' = IF autoStop[m].pc = "awaitStopEvent"
                 THEN [autoStop EXCEPT ![m] = [pc |-> "flush", due |-> now + FlushDelay]]
                 ELSE autoStop
  /\ UNCHANGED <<ctlVars, audioVars, now, netVars, unhandled, autoStopElapsed>>

\* options.autoUpload !== false
AutoUploadEnabled_OrDefault == TRUE
AutoUploadEnabled == autoUpload # "false"

\* VocaFuseUploader.upload() up to its first wait for the network:
\* requestPresignedUrl() -> TokenManager.getToken() -> fetch, or with a cached
\* token straight to HttpClient.request('/upload')
UploadStart(c) ==
  IF cachedToken
  THEN /\ issued' = issued \cup {"presign"}
       /\ calls' = [calls EXCEPT ![c].pc = "upPresign", ![c].mr = 0, ![c].due = 0,
                                 ![c].emitted = calls[c].emitted \o <<"stopped", "uploading">>]
  ELSE /\ issued' = issued \cup {"token"}
       /\ calls' = [calls EXCEPT ![c].pc = "upToken", ![c].mr = 0, ![c].due = 0,
                                 ![c].emitted = calls[c].emitted \o <<"stopped", "uploading">>]

\* AudioRecorder.stop() resolved with result: lines 82-93 of VoiceRecorder.stop()
StopResolved(c, result) ==
  /\ recordingResult' = <<result>>
  /\ IF AutoUploadEnabled
     THEN /\ state' = "uploading"
          /\ UploadStart(c)
     ELSE /\ state' = "stopped"
          /\ calls' = [calls EXCEPT ![c].pc = "done", ![c].value = "artifact",
                                    ![c].mr = 0, ![c].due = 0,
                                    ![c].emitted = Append(calls[c].emitted, "stopped")]
          /\ UNCHANGED issued

\* the 100 ms wait of handleStop is over: lines 217-235 (ok) or the catch of
\* lines 236-239 (the assembly of the artifact threw)
FlushTimeout(c, ok) ==
  /\ UNCHANGED auxVars
  /\ c \in 1..Len(calls)
  /\ calls[c].pc = "flush" /\ calls[c].due = now
  /\ ~MicrotaskPending
  /\ cleanup
  /\ IF ok
     THEN StopResolved(c, [duration |-> now - startTime, size |-> chunks])
     ELSE /\ calls' = [calls EXCEPT ![c].pc = "done", ![c].err = "UNKNOWN_ERROR",
                                    ![c].mr = 0, ![c].due = 0]
          /\ UNCHANGED <<state, recordingResult, issued>>
  /\ UNCHANGED <<duration, autoUpload, maxDuration, mrState, now, autoStop,
                 cachedToken, onErrorLog, unhandled, autoStopElapsed>>

\* the same for the stop() issued by the progress timer (line 341): the
\* result is dropped, a rejection is rethrown inside the catch callback
AutoFlushTimeout(m, ok) ==
  /\ UNCHANGED auxVars
  /\ m \in Ids
  /\ autoStop[m].pc = "flush" /\ autoStop[m].due = now
  /\ ~MicrotaskPending
  /\ cleanup
  /\ autoStop' = [autoStop EXCEPT ![m] = [pc |-> "done", due |-> 0]]
  /\ unhandled' = IF ok THEN unhandled ELSE unhandled \cup {"RECORDING_TOO_LONG"}
  /\ UNCHANGED <<ctlVars, mrState, now, calls, netVars, autoStopElapsed>>

\* ---------------------------------------------------------------------
\* AudioRecorder progress timer (setInterval callback, lines 336-352)
\* ---------------------------------------------------------------------
LimitReached_Strict(d) == d > maxDuration
LimitReached(d) == d >= maxDuration

TimerTick ==
  /\ UNCHANGED auxVars
  /\ progressTimer /\ timerDue = now
  /\ ~MicrotaskPending
  /\ UNCHANGED <<state, recordingResult, autoUpload, maxDuration, mediaRecorder,
                 mediaStream, chunks, startTime, pausedTime, tracksLive, now,
                 calls, netVars>>
  /\ IF LimitReached(currentDuration)
     THEN IF AudioState = INACTIVE
          THEN \* this.stop() rejects; the interval keeps running
               /\ unhandled' = unhandled \cup {"RECORDING_TOO_LONG"}
               /\ timerDue' = now + TimerInterval
               /\ UNCHANGED <<duration, progressTimer, mrState, autoStop, autoStopElapsed>>
          ELSE /\ mrState' = [mrState EXCEPT ![mediaRecorder] = "inactive"]
               /\ autoStop' = [autoStop EXCEPT ![mediaRecorder] = [pc |-> "awaitStopEvent", due |-> 0]]
               /\ progressTimer' = FALSE
               /\ timerDue' = 0
               /\ autoStopElapsed' = currentDuration
               /\ UNCHANGED <<duration, unhandled>>
     ELSE \* config.onProgress(duration): the controller stores it
          /\ duration' = currentDuration
          /\ timerDue' = now + TimerInterval
          /\ UNCHANGED <<progressTimer, mrState, autoStop, unhandled, autoStopElapsed>>

\* MediaRecorder 'dataavailable' listener (lines 313-318)
DataAvailable(m) ==
  /\ UNCHANGED auxVars
  /\ m \in Ids
  /\ mrState[m] = "recording"
  /\ chunks < MaxChunks
  /\ ~MicrotaskPending
  /\ chunks' = chunks + 1
  /\ UNCHANGED <<ctlVars, mediaRecorder, mediaStream, startTime, pausedTime,
                 progressTimer, timerDue, mrState, tracksLive, now, calls,
                 autoStop, netVars, unhandled, autoStopElapsed>>

\* MediaRecorder 'error' listener (lines 320-330): cleanup(), then the error
\* is thrown inside the then-callback of a promise nobody holds
MRError(m) ==
  /\ UNCHANGED auxVars
  /\ m \in Ids
  /\ mrState[m] = "recording"
  /\ ~MicrotaskPending
  /\ cleanup
  /\ mrState' = [mrState EXCEPT ![m] = "inactive"]
  /\ unhandled' = unhandled \cup {"RECORDING_FAILED"}
  /\ UNCHANGED <<ctlVars, now, calls, autoStop, netVars, autoStopElapsed>>

\* ---------------------------------------------------------------------
\* VoiceRecorder.cancel()
\* ---------------------------------------------------------------------
\* synchronous part: AudioRecorder.cancel() up to its await
CancelCall ==
  /\ UNCHANGED auxVars
  /\ Len(calls) < MaxCalls
  /\ calls' = Append(calls, Frame("cancel", "cancelAwait", "none", "none", <<>>))
  /\ IF AudioState = INACTIVE
     THEN UNCHANGED audioVars
     ELSE /\ mrState' = [mrState EXCEPT ![mediaRecorder] = "inactive"]
          /\ cleanup
  /\ UNCHANGED <<ctlVars, now, autoStop, netVars, unhandled, autoStopElapsed>>

\* lines 98-101
CancelContinue(c) ==
  /\ UNCHANGED auxVars
  /\ c \in 1..Len(calls)
  /\ calls[c].pc = "cancelAwait"
  /\ state' = "idle"
  /\ duration' = 0
  /\ recordingResult' = <<>>
  /\ calls' = [calls EXCEPT ![c].pc = "done", ![c].value = "void",
                            ![c].emitted = Append(calls[c].emitted, "idle")]
  /\ UNCHANGED <<autoUpload, maxDuration, audioVars, now, autoStop, netVars,
                 unhandled, autoStopElapsed>>

\* ---------------------------------------------------------------------
\* VoiceRecorder.pause() / resume(): synchronous, they hand on to
\* AudioRecorder.pause() / resume() and let their exception through
\* ---------------------------------------------------------------------
\* AudioRecorder.stopProgressTimer()
stopProgressTimer ==
  /\ progressTimer' = FALSE
  /\ timerDue' = 0

PauseCall ==
  /\ UNCHANGED auxVars
  /\ Len(calls) < MaxCalls
  /\ IF AudioState # RECORDING
     THEN \* the frame keeps the MediaRecorder the call found recording
          /\ calls' = Append(calls, [Frame("pause", "done", "RECORDING_FAILED", "none", <<>>)
                                      EXCEPT !.mr = IF AudioState = "recording" THEN mediaRecorder ELSE 0])
          /\ UNCHANGED <<mrState, pausedTime, progressTimer, timerDue>>
     ELSE /\ calls' = Append(calls, [Frame("pause", "done", "none", "void", <<>>)
                                      EXCEPT !.mr = mediaRecorder])
          /\ mrState' = [mrState EXCEPT ![mediaRecorder] = "paused"]
          /\ pausedTime' = now - startTime
          /\ stopProgressTimer
  /\ UNCHANGED <<ctlVars, mediaRecorder, mediaStream, chunks, startTime,
                 tracksLive, now, autoStop, netVars, unhandled, autoStopElapsed>>

ResumeCall ==
  /\ UNCHANGED auxVars
  /\ Len(calls) < MaxCalls
  /\ IF AudioState # PAUSED
     THEN /\ calls' = Append(calls, Frame("resume", "done", "RECORDING_FAILED", "none", <<>>))
          /\ UNCHANGED <<mrState, startTime, progressTimer, timerDue>>
     ELSE /\ calls' = Append(calls, Frame("resume", "done", "none", "void", <<>>))
          /\ mrState' = [mrState EXCEPT ![mediaRecorder] = "recording"]
          /\ startTime' = now - pausedTime
          /\ startProgressTimer
  /\ UNCHANGED <<ctlVars, mediaRecorder, mediaStream, chunks, pausedTime,
                 tracksLive, now, autoStop, netVars, unhandled, autoStopElapsed>>

\* ---------------------------------------------------------------------
\* VocaFuseUploader.upload() as awaited by VoiceRecorder.stop()
\* ---------------------------------------------------------------------
UploadFailed_ErrorState(c, code) ==
  /\ calls' = [calls EXCEPT ![c].pc = "done", ![c].err = code,
                            ![c].emitted = Append(calls[c].emitted, "idle")]
  /\ onErrorLog' = onErrorLog \cup {code}
  /\ state' = "idle"
  /\ UNCHANGED <<duration, recordingResult, autoUpload, maxDuration>>

\* catch block of upload() (lines 117-121): config.onError, rethrow; the
\* controller's await of line 89 lets the error through
UploadFailed(c, code) ==
  /\ calls' = [calls EXCEPT ![c].pc = "done", ![c].err = code]
  /\ onErrorLog' = onErrorLog \cup {code}
  /\ UNCHANGED ctlVars

\* the token endpoint answered (TokenManager.fetchTokenData); a failure is
\* wrapped by the catch of requestPresignedUrl() into an UploadError
TokenFetchDone(c, ok) ==
  /\ UNCHANGED auxVars
  /\ c \in 1..Len(calls)
  /\ calls[c].pc = "upToken"
  /\ ~MicrotaskPending
  /\ IF ok
     THEN /\ cachedToken' = TRUE
          /\ issued' = issued \cup {"presign"}
          /\ calls' = [calls EXCEPT ![c].pc = "upPresign"]
          /\ UNCHANGED <<ctlVars, onErrorLog>>
     ELSE /\ UploadFailed(c, "UPLOAD_FAILED")
          /\ UNCHANGED <<cachedToken, issued>>
  /\ UNCHANGED <<audioVars, now, autoStop, unhandled, autoStopElapsed>>

PresignResponses ==
  {[type |-> "single", usable |-> TRUE, n |-> 1],
   [type |-> "single", usable |-> FALSE, n |-> 0],
   [type |-> "multipart", usable |-> FALSE, n |-> 0],
   [type |-> "failed", usable |-> FALSE, n |-> 0]}
  \cup {[type |-> "multipart", usable |-> TRUE, n |-> k] : k \in 2..MaxParts}

\* HttpClient.request('/upload') settled: lines 92-99 of upload(), then
\* uploadSingle() / uploadMultipart() send their PUTs
PresignDone(c, resp) ==
  /\ UNCHANGED auxVars
  /\ c \in 1..Len(calls)
  /\ calls[c].pc = "upPresign"
  /\ resp \in PresignResponses
  /\ ~MicrotaskPending
  /\ IF resp.usable
     THEN /\ issued' = issued \cup {"put"}
          /\ calls' = [calls EXCEPT ![c].pc = "upPut",
                                    ![c].parts = [k \in 1..resp.n |-> "pending"]]
          /\ UNCHANGED <<ctlVars, onErrorLog>>
     ELSE /\ UploadFailed(c, "UPLOAD_FAILED")
          /\ UNCHANGED issued
  /\ UNCHANGED <<audioVars, now, autoStop, cachedToken, unhandled, autoStopElapsed>>

PartOutcomes == {"ok", "status", "network"}

\* error raised by a PUT: UploadError for a status outside [200,300),
\* NetworkError for the 'error' and 'timeout' events
PartErrorCode(outcome) ==
  IF outcome = "status" THEN "UPLOAD_FAILED" ELSE "NETWORK_ERROR"

UploadSucceeded_SetBeforeDone(c, parts) ==
  /\ calls' = [calls EXCEPT ![c].pc = IF \A k \in 1..Len(parts) : parts[k] = "ok" THEN "done" ELSE "upPut",
                            ![c].parts = parts,
                            ![c].value = "uploadResult",
                            ![c].emitted = Append(calls[c].emitted, "uploaded")]
  /\ state' = "uploaded"
  /\ UNCHANGED <<duration, recordingResult, autoUpload, maxDuration, onErrorLog>>

\* a PUT completed while Promise.all is still pending
UploadSucceeded(c, parts) ==
  IF \A k \in 1..Len(parts) : parts[k] = "ok"
  THEN \* lines 102-116 of upload(), lines 90-91 of VoiceRecorder.stop()
       /\ calls' = [calls EXCEPT ![c].pc = "done", ![c].parts = parts,
                                 ![c].value = "uploadResult",
                                 ![c].emitted = Append(calls[c].emitted, "uploaded")]
       /\ state' = "uploaded"
       /\ UNCHANGED <<duration, recordingResult, autoUpload, maxDuration, onErrorLog>>
  ELSE /\ calls' = [calls EXCEPT ![c].parts = parts]
       /\ UNCHANGED <<ctlVars, onErrorLog>>

\* the XMLHttpRequest of part p finished
PartDone(c, p, outcome) ==
  /\ UNCHANGED auxVars
  /\ c \in 1..Len(calls)
  /\ p \in 1..Len(calls[c].parts)
  /\ calls[c].pc = "upPut"   \* once Promise.all has rejected nobody listens
  /\ calls[c].parts[p] = "pending"
  /\ outcome \in PartOutcomes
  /\ ~MicrotaskPending
  /\ LET parts == [calls[c].parts EXCEPT ![p] = IF outcome = "ok" THEN "ok" ELSE "failed"] IN
     IF outcome = "ok"
     THEN UploadSucceeded(c, parts)
     ELSE UploadFailed(c, PartErrorCode(outcome))
  /\ UNCHANGED <<audioVars, now, autoStop, cachedToken, issued, unhandled, autoStopElapsed>>

\* ---------------------------------------------------------------------
\* Passage of time: a due timer fires before the clock moves on
\* ---------------------------------------------------------------------
TimerDueNow ==
  \/ progressTimer /\ timerDue = now
  \/ \E i \in 1..Len(calls) : calls[i].pc = "flush" /\ calls[i].due = now
  \/ \E m \in Ids : autoStop[m].pc = "flush" /\ autoStop[m].due = now

\* the clock is only read while a recording runs or is being finalized
ClockObserved ==
  \/ progressTimer
  \/ \E i \in 1..Len(calls) : calls[i].pc = "flush"
  \/ \E m \in Ids : autoStop[m].pc = "flush"

AdvanceTime ==
  /\ UNCHANGED auxVars
  /\ now < MaxTime
  /\ ClockObserved
  /\ ~TimerDueNow
  /\ ~MicrotaskPending
  /\ now' = now + 1
  /\ UNCHANGED <<ctlVars, audioVars, calls, autoStop, netVars, unhandled, autoStopElapsed>>

Next ==
  \/ StartCall
  \/ \E c \in Ids : GetUserMediaResolve(c)
  \/ \E c \in Ids, name \in DomErrors : GetUserMediaReject(c, name)
  \/ \E c \in Ids : MediaRecorderUnsupported(c)
  \/ StopCall
  \/ \E m \in Ids : MRStopEvent(m)
  \/ \E c \in Ids, ok \in BOOLEAN : FlushTimeout(c, ok)
  \/ \E m \in Ids, ok \in BOOLEAN : AutoFlushTimeout(m, ok)
  \/ TimerTick
  \/ \E m \in Ids : DataAvailable(m)
  \/ \E m \in Ids : MRError(m)
  \/ CancelCall
  \/ PauseCall
  \/ ResumeCall
  \/ \E c \in Ids : CancelContinue(c)
  \/ \E c \in Ids, ok \in BOOLEAN : TokenFetchDone(c, ok)
  \/ \E c \in Ids, resp \in PresignResponses : PresignDone(c, resp)
  \/ \E c \in Ids, p \in 1..MaxParts, outcome \in PartOutcomes : PartDone(c, p, outcome)
  \/ AdvanceTime

Spec == Init /\ [][Next]_vars

\* =====================================================================
\* TokenManager (token.ts), on its own: callers of getToken() and
\* refreshToken(), clearToken(), and the token endpoint answering.
\* The clock `now` is Date.now() in milliseconds.
\* =====================================================================
RefreshBuffer == 300
DefaultExpiresIn == 3600
TokenTickMs == 1000

\* a recorder that is constructed and never used
RecorderIdle ==
  /\ state = "idle"
  /\ duration = 0
  /\ recordingResult = <<>>
  /\ autoUpload = "undefined"
  /\ maxDuration = 2
  /\ mediaRecorder = 0
  /\ mediaStream = 0
  /\ chunks = 0
  /\ startTime = 0
  /\ pausedTime = 0
  /\ progressTimer = FALSE
  /\ timerDue = 0
  /\ mrState = [i \in Ids |-> "none"]
  /\ tracksLive = [i \in Ids |-> FALSE]
  /\ calls = <<>>
  /\ autoStop = [i \in Ids |-> [pc |-> "none", due |-> 0]]
  /\ cachedToken = FALSE
  /\ issued = {}
  /\ onErrorLog = {}
  /\ unhandled = {}
  /\ autoStopElapsed = -1

InitToken ==
  /\ RecorderIdle
  /\ now = 0
  /\ TokenManagerNew
  /\ HttpClientNew
  /\ UploaderNew

\* TokenManager.isTokenValid()
isTokenValid_Inclusive ==
  IF tokenCache = <<>> THEN FALSE
  ELSE tokenCache[1].expiresAt >= now + RefreshBuffer * 1000
isTokenValid ==
  IF tokenCache = <<>> THEN FALSE
  ELSE tokenCache[1].expiresAt > now + RefreshBuffer * 1000

TokenFrame(op, pc, fetch, value) ==
  [op |-> op, pc |-> pc, fetch |-> fetch, value |-> value, err |-> "none",
   at |-> now, cache |-> tokenCache]

\* TokenManager.getToken(): the cached token, or fetchNewToken() ->
\* fetchTokenData() up to its await on fetch()
GetTokenCall ==
  /\ Len(tokenCalls) < MaxTokenCalls
  /\ IF actualJwtToken # 0 /\ tokenCache # <<>> /\ isTokenValid
     THEN /\ tokenCalls' = Append(tokenCalls, TokenFrame("getToken", "done", 0, actualJwtToken))
          /\ UNCHANGED tokenFetches
     ELSE /\ tokenFetches' = Append(tokenFetches, "inflight")
          /\ tokenCalls' = Append(tokenCalls, TokenFrame("getToken", "fetching", Len(tokenFetches) + 1, 0))
  /\ UNCHANGED <<recVars, httpVars, upVars, now, actualJwtToken, tokenCache, refreshPromise>>

\* TokenManager.refreshToken() up to its await
RefreshTokenCall ==
  /\ Len(tokenCalls) < MaxTokenCalls
  /\ IF refreshPromise # 0
     THEN /\ tokenCalls' = Append(tokenCalls, TokenFrame("refreshToken", "awaitRefresh", refreshPromise, 0))
          /\ UNCHANGED <<tokenFetches, refreshPromise>>
     ELSE /\ tokenFetches' = Append(tokenFetches, "inflight")
          /\ refreshPromise' = Len(tokenFetches) + 1
          /\ tokenCalls' = Append(tokenCalls, TokenFrame("refreshToken", "fetching", Len(tokenFetches) + 1, 0))
  /\ UNCHANGED <<recVars, httpVars, upVars, now, actualJwtToken, tokenCache>>

\* TokenManager.clearToken()
ClearToken ==
  /\ Len(tokenCalls) < MaxTokenCalls
  /\ \/ actualJwtToken # 0 \/ tokenCache # <<>> \/ refreshPromise # 0
     \/ \E f \in 1..Len(tokenFetches) : tokenFetches[f] = "inflight"
  /\ tokenCache' = <<>>
  /\ actualJwtToken' = 0
  /\ refreshPromise' = 0
  /\ tokenCalls' = Append(tokenCalls, TokenFrame("clearToken", "done", 0, 0))
  /\ UNCHANGED <<recVars, httpVars, upVars, now, tokenFetches>>

\* what the token endpoint can answer; expires_in = 0 stands for a missing
\* field
TokenResponses ==
  {[kind |-> "ok", expires_in |-> e] : e \in {0, RefreshBuffer, RefreshBuffer + 1}}
  \cup {[kind |-> k, expires_in |-> 0] : k \in {"status", "badBody", "notSuccess", "noIdToken", "network"}}

\* the exception raised inside the try block of fetchTokenData()
ThrownInFetchTokenData(kind) ==
  IF kind \in {"status", "notSuccess", "noIdToken"} THEN "AuthenticationError"
  ELSE IF kind = "badBody" THEN "SyntaxError"
  ELSE "TypeError"

\* the catch block of fetchTokenData() (lines 150-155)
CatchOfFetchTokenData_Rethrow(e) == e
CatchOfFetchTokenData(e) ==
  IF e = "AuthenticationError" THEN e ELSE "AuthenticationError"

\* the retryable flag the error classes of errors.ts set
ErrorRetryable(name) ==
  IF name = "AuthenticationError" THEN FALSE
  ELSE IF name \in {"NetworkError", "UploadError"} THEN TRUE
  ELSE FALSE

\* the callers whose await ends when fetch f settles
WaitingOn(f) ==
  {i \in 1..Len(tokenCalls) : tokenCalls[i].pc # "done" /\ tokenCalls[i].fetch = f}

\* the token endpoint answered request f: the rest of fetchTokenData(), then
\* the continuations of fetchNewToken() / refreshToken()
FetchTokenDataSettles(f, resp) ==
  /\ f \in 1..Len(tokenFetches)
  /\ tokenFetches[f] = "inflight"
  /\ resp \in TokenResponses
  /\ LET ok == resp.kind = "ok"
         expiresIn == IF resp.expires_in = 0 THEN DefaultExpiresIn ELSE resp.expires_in
         token == IF ok THEN f ELSE actualJwtToken
     IN
     /\ tokenFetches' = [tokenFetches EXCEPT ![f] = IF ok THEN "ok" ELSE "failed"]
     /\ actualJwtToken' = token
     /\ tokenCache' = IF ok
                      THEN <<[jwt |-> f, expiresAt |-> now + expiresIn * 1000, fetchedAt |-> now]>>
                      ELSE tokenCache
     /\ tokenCalls' = [i \in 1..Len(tokenCalls) |->
                         IF i \in WaitingOn(f)
                         THEN IF ok
                              THEN [tokenCalls[i] EXCEPT !.pc = "done", !.value = token]
                              ELSE [tokenCalls[i] EXCEPT !.pc = "done",
                                      !.err = CatchOfFetchTokenData(ThrownInFetchTokenData(resp.kind))]
                         ELSE tokenCalls[i]]
     /\ refreshPromise' =
          IF \E i \in WaitingOn(f) : tokenCalls[i].op = "refreshToken" /\ tokenCalls[i].pc = "fetching"
          THEN 0 ELSE refreshPromise
  /\ UNCHANGED <<recVars, httpVars, upVars, now>>

TokenTick ==
  /\ now < MaxTokenTicks * TokenTickMs
  /\ now' = now + TokenTickMs
  /\ UNCHANGED <<recVars, httpVars, upVars, tokVars>>

NextToken ==
  \/ GetTokenCall
  \/ RefreshTokenCall
  \/ ClearToken
  \/ \E f \in 1..MaxTokenCalls, resp \in TokenResponses : FetchTokenDataSettles(f, resp)
  \/ TokenTick

SpecToken == InitToken /\ [][NextToken]_vars

\* =====================================================================
\* HttpClient (client.ts), on its own: one request() call, the answers of
\* fetch(), the timeout timer and the caller's AbortSignal.
\* The clock `now` is in milliseconds.
\* =====================================================================
MaxRetriesLimit == 3
MaxHttpOverrun == 2
DefaultTimeout == 30000

InitHttp ==
  /\ RecorderIdle
  /\ now = 0
  /\ TokenManagerNew
  /\ retryOptions \in {[DefaultRetryOptions EXCEPT !.maxRetries = m, !.maxDelay = d, !.backoffFactor = f] :
                          m \in 0..MaxRetriesLimit, d \in {10000, 1500}, f \in {1, 2}}
  /\ request = RequestIdle
  /\ controller = ControllerNone
  /\ UploaderNew

\* the error classes of errors.ts, as the fields the client reads
TimeoutError ==
  [name |-> "NetworkError", code |-> "NETWORK_ERROR", retryable |-> FALSE, status |-> 0, kind |-> "timeout"]
FetchFailedError ==
  [name |-> "NetworkError", code |-> "NETWORK_ERROR", retryable |-> TRUE, status |-> 0, kind |-> "network"]
ParseError_Retryable(status) ==
  [name |-> "NetworkError", code |-> "NETWORK_ERROR", retryable |-> TRUE, status |-> status, kind |-> "parse"]
ParseError(status) ==
  [name |-> "NetworkError", code |-> "NETWORK_ERROR", retryable |-> FALSE, status |-> status, kind |-> "parse"]

createErrorFromResponse(status) ==
  [name |-> "VocaFuseError",
   code |-> IF status \in {401, 403} THEN "AUTHENTICATION_FAILED"
            ELSE IF status = 413 THEN "FILE_TOO_LARGE"
            ELSE "REQUEST_FAILED",
   retryable |-> (status = 429 \/ status >= 500),
   status |-> status, kind |-> "http"]

\* fetch() rejected with something that is not an Error: request() line 90
\* makes a plain Error of it
PlainError ==
  [name |-> "Error", code |-> "none", retryable |-> FALSE, status |-> 0, kind |-> "unknown"]

\* instanceof VocaFuseError
IsVocaFuseError(error) == error.name \in {"VocaFuseError", "NetworkError"}

\* the context each error is constructed with (client.ts:206, 208, 226-229;
\* errors.ts:413-418)
ContextOf(error) ==
  IF error.kind \in {"timeout", "network"} THEN {"url"}
  ELSE IF error.kind = "parse" THEN {"status", "statusText"}
  ELSE IF error.kind = "http" THEN {"status", "statusText", "responseBody"}
  ELSE {}

\* wrapUnknownError(lastError, {url, method, attempts: maxAttempts})
wrapLastError(error, maxAttempts) ==
  IF IsVocaFuseError(error)
  THEN [error |-> error, context |-> ContextOf(error), attempts |-> 0]
  ELSE [error |-> [error EXCEPT !.name = "VocaFuseError", !.code = "UNKNOWN_ERROR"],
        context |-> {"url", "method", "attempts"}, attempts |-> maxAttempts]

shouldRetry(error, attempt) ==
  IF attempt >= retryOptions.maxRetries THEN FALSE
  ELSE IF IsVocaFuseError(error) /\ ~error.retryable THEN FALSE
  ELSE IF error.name = "NetworkError" /\ error.retryable THEN TRUE
  ELSE IF error.name = "AbortError" THEN TRUE
  ELSE FALSE

RECURSIVE Pow(_, _)
Pow(b, e) == IF e = 0 THEN 1 ELSE b * Pow(b, e - 1)

JitterPercent == {0, 5}

\* calculateRetryDelay(); Math.random() * 0.1 as a percentage below 10
calculateRetryDelay_JitterAfterCap(attempt, jitter) ==
  LET delay == retryOptions.baseDelay * Pow(retryOptions.backoffFactor, attempt - 1)
      capped == IF delay < retryOptions.maxDelay THEN delay ELSE retryOptions.maxDelay
  IN capped + (delay * jitter) \div 100
calculateRetryDelay(attempt, jitter) ==
  LET delay == retryOptions.baseDelay * Pow(retryOptions.backoffFactor, attempt - 1)
      total == delay + (delay * jitter) \div 100
  IN IF total < retryOptions.maxDelay THEN total ELSE retryOptions.maxDelay

\* request(): buildRequestOptions(), then the first pass of the loop up to
\* the await on fetch()
RequestCall(optRetries, optTimeout, hasSignal) ==
  /\ request.pc = "idle"
  /\ LET timeout == IF optTimeout = 0 THEN DefaultTimeout ELSE optTimeout
     IN
     /\ controller' = [aborted |-> FALSE, by |-> "none", timerArmed |-> TRUE,
                       timerDue |-> now + timeout, signal |-> hasSignal]
     /\ request' = [RequestIdle EXCEPT
                      !.pc = "fetching", !.attempt = 1,
                      !.maxAttempts = (IF optRetries = -1 THEN retryOptions.maxRetries ELSE optRetries) + 1,
                      !.timeout = timeout, !.attemptStart = now, !.fetches = 1]
  /\ UNCHANGED <<recVars, tokVars, upVars, now, retryOptions>>

\* the catch block of request() (lines 89-100) and the throw after the loop
AttemptFailed_RetryOnLast(error, jitter) ==
  IF ~shouldRetry(error, request.attempt)
  THEN request' = [request EXCEPT !.pc = "rejected", !.lastError = error,
                                  !.thrown = wrapLastError(error, request.maxAttempts)]
  ELSE request' = [request EXCEPT !.pc = "sleeping", !.lastError = error,
                     !.sleepDue = now + calculateRetryDelay(request.attempt, jitter),
                     !.sleeps = @ + 1]
AttemptFailed(error, jitter) ==
  IF request.attempt = request.maxAttempts \/ ~shouldRetry(error, request.attempt)
  THEN request' = [request EXCEPT !.pc = "rejected", !.lastError = error,
                                  !.thrown = wrapLastError(error, request.maxAttempts)]
  ELSE request' = [request EXCEPT !.pc = "sleeping", !.lastError = error,
                     !.sleepDue = now + calculateRetryDelay(request.attempt, jitter),
                     !.sleeps = @ + 1]

HttpStatuses == {200, 401, 403, 404, 413, 429, 503}
\* bodies of a 2xx answer: the API envelope (an object with `data`), an
\* object without `data`, JSON null, and text; and the X-Request-Id header
\* ("" when absent)
ResponseBodies == {"envelope", "objectNoData", "null", "text"}
FetchOutcomes ==
  {[kind |-> "response", status |-> st, parses |-> p, body |-> "null", requestId |-> ""] :
     st \in HttpStatuses, p \in BOOLEAN}
  \cup {[kind |-> "response", status |-> 200, parses |-> TRUE, body |-> b, requestId |-> r] :
     b \in ResponseBodies, r \in {"", "req-1"}}
  \cup {[kind |-> k, status |-> 0, parses |-> FALSE, body |-> "null", requestId |-> ""] :
     k \in {"network", "thrown"}}

\* typeof body === 'object' && body !== null && 'data' in body
HasDataField(v) == v.wrapped \/ v.body = "envelope"

\* the tail of processResponse() (lines 236-246)
normalizeBody_AlwaysWrap(v, requestId) ==
  [wrapped |-> TRUE, body |-> v.body, object |-> "response",
   request_id |-> IF requestId = "" THEN "unknown" ELSE requestId]
normalizeBody(v, requestId) ==
  IF HasDataField(v) THEN v
  ELSE [wrapped |-> TRUE, body |-> v.body, object |-> "response",
        request_id |-> IF requestId = "" THEN "unknown" ELSE requestId]

\* fetch() settles before any abort: the rest of executeRequest(), then
\* processResponse()
FetchResponds(resp, jitter) ==
  /\ request.pc = "fetching"
  /\ ~controller.aborted
  /\ resp \in FetchOutcomes
  /\ controller' = [controller EXCEPT !.timerArmed = FALSE]
  /\ IF resp.kind = "network" THEN AttemptFailed(FetchFailedError, jitter)
     ELSE IF resp.kind = "thrown" THEN AttemptFailed(PlainError, jitter)
     ELSE IF ~resp.parses THEN AttemptFailed(ParseError(resp.status), jitter)
     ELSE IF resp.status \notin 200..299 THEN AttemptFailed(createErrorFromResponse(resp.status), jitter)
     ELSE request' = [request EXCEPT !.pc = "resolved",
                        !.received = [body |-> resp.body, requestId |-> resp.requestId],
                        !.result = normalizeBody(RawBody(resp.body), resp.requestId)]
  /\ UNCHANGED <<recVars, tokVars, upVars, now, retryOptions>>

\* fetch() rejects with AbortError because the signal is aborted
FetchAborted(jitter) ==
  /\ request.pc = "fetching"
  /\ controller.aborted
  /\ controller' = [controller EXCEPT !.timerArmed = FALSE]
  /\ AttemptFailed(TimeoutError, jitter)
  /\ UNCHANGED <<recVars, tokVars, upVars, now, retryOptions>>

\* the timer of buildRequestOptions() (line 170) fires
TimeoutFires ==
  /\ controller.timerArmed
  /\ now = controller.timerDue
  /\ controller' = [controller EXCEPT !.timerArmed = FALSE, !.aborted = TRUE,
                      !.by = IF controller.aborted THEN @ ELSE "timer"]
  /\ UNCHANGED <<recVars, tokVars, upVars, now, retryOptions, request>>

\* the caller's AbortSignal fires (listener of line 174)
ExternalAbort ==
  /\ controller.signal
  /\ ~controller.aborted
  /\ request.pc \in {"fetching", "sleeping"}
  /\ controller' = [controller EXCEPT !.aborted = TRUE, !.by = "external"]
  /\ UNCHANGED <<recVars, tokVars, upVars, now, retryOptions, request>>

\* sleep() ends: the next pass of the loop up to the await on fetch()
SleepEnds ==
  /\ request.pc = "sleeping"
  /\ now = request.sleepDue
  /\ request' = [request EXCEPT !.pc = "fetching", !.attempt = @ + 1,
                   !.attemptStart = now, !.fetches = @ + 1]
  /\ UNCHANGED <<recVars, tokVars, upVars, now, retryOptions, controller>>

\* time passes up to the next timer; with no timer armed, by one timeout
\* period while the fetch stays unanswered
HttpAdvance ==
  /\ \/ /\ request.pc = "fetching" /\ ~controller.aborted /\ controller.timerArmed
        /\ now < controller.timerDue
        /\ now' = controller.timerDue
     \/ /\ request.pc = "sleeping"
        /\ now < request.sleepDue
        /\ now' = request.sleepDue
     \/ /\ request.pc = "fetching" /\ ~controller.aborted /\ ~controller.timerArmed
        /\ now < request.attemptStart + MaxHttpOverrun * request.timeout
        /\ now' = now + request.timeout
  /\ UNCHANGED <<recVars, tokVars, upVars, httpVars>>

NextHttp ==
  \/ \E r \in {-1, 1}, t \in {0, 5000}, sig \in BOOLEAN : RequestCall(r, t, sig)
  \/ \E resp \in FetchOutcomes, j \in JitterPercent : FetchResponds(resp, j)
  \/ \E j \in JitterPercent : FetchAborted(j)
  \/ TimeoutFires
  \/ ExternalAbort
  \/ SleepEnds
  \/ HttpAdvance

SpecHttp == InitHttp /\ [][NextHttp]_vars

\* every fetch() settles (answered, failed, or rejected once its signal is
\* aborted) and every timer that was set fires
SpecHttpFair ==
  /\ SpecHttp
  /\ WF_vars(\E resp \in FetchOutcomes, j \in JitterPercent : FetchResponds(resp, j))
  /\ WF_vars(\E j \in JitterPercent : FetchAborted(j))
  /\ WF_vars(SleepEnds)
  /\ WF_vars(HttpAdvance)

\* =====================================================================
\* VocaFuseUploader (upload.ts), on its own: one upload() call awaited by
\* VoiceRecorder.stop() (controller in 'uploading'), the credential, the
\* presign request and the PUT of every part.
\* =====================================================================
MaxUploadParts == 3
\* event.total of a progress event, in units of event.loaded
MaxLoaded == 2

\* the recorder after AudioRecorder.stop() resolved and line 88 of
\* VoiceRecorder.stop() set 'uploading'
RecorderUploading ==
  /\ state = "uploading"
  /\ duration = 0
  /\ recordingResult = <<[duration |-> 2, size |-> 1]>>
  /\ autoUpload = "undefined"
  /\ maxDuration = 2
  /\ mediaRecorder = 0
  /\ mediaStream = 0
  /\ chunks = 0
  /\ startTime = 0
  /\ pausedTime = 0
  /\ progressTimer = FALSE
  /\ timerDue = 0
  /\ mrState = [i \in Ids |-> "none"]
  /\ tracksLive = [i \in Ids |-> FALSE]
  /\ calls = <<>>
  /\ autoStop = [i \in Ids |-> [pc |-> "none", due |-> 0]]
  /\ cachedToken = FALSE
  /\ issued = {}
  /\ onErrorLog = {}
  /\ unhandled = {}
  /\ autoStopElapsed = -1

InitUpload ==
  /\ RecorderUploading
  /\ now = 0
  /\ TokenManagerNew
  /\ HttpClientNew
  /\ UploaderNew

\* everything of the recorder but the controller's state
recRest == <<duration, recordingResult, autoUpload, maxDuration,
             mediaRecorder, mediaStream, chunks, startTime, pausedTime,
             progressTimer, timerDue, mrState, tracksLive,
             calls, autoStop, cachedToken, issued, onErrorLog, unhandled,
             autoStopElapsed>>

\* the error objects of errors.ts the uploader sees
ErrorCodeOf(name) ==
  IF name = "UploadError" THEN "UPLOAD_FAILED"
  ELSE IF name = "NetworkError" THEN "NETWORK_ERROR"
  ELSE IF name = "AuthenticationError" THEN "AUTHENTICATION_FAILED"
  ELSE IF name = "VocaFuseError" THEN "REQUEST_FAILED"
  ELSE "none"
RaisedError(name, message) ==
  [name |-> name, code |-> ErrorCodeOf(name), message |-> message, cause |-> "none"]
VocaFuseErrorNames == {"VocaFuseError", "UploadError", "NetworkError", "AuthenticationError"}

\* wrapUnknownError()
wrapUnknownError(e) ==
  IF e.name \in VocaFuseErrorNames THEN e
  ELSE [name |-> "VocaFuseError", code |-> "UNKNOWN_ERROR", message |-> e.message, cause |-> e.name]

\* the catch block of requestPresignedUrl() (lines 157-159)
requestPresignedUrlCatch_Rethrow(e) == e
requestPresignedUrlCatch(e) ==
  [name |-> "UploadError", code |-> "UPLOAD_FAILED",
   message |-> "Failed to get presigned upload URL", cause |-> e.name]

\* the catch block of upload() (lines 117-121)
\* (u: the uploader after the notifications that preceded the throw)
UploadRejects_Silent(u, e, resp) ==
  LET uploadError == IF e.name = "UploadError" THEN e ELSE wrapUnknownError(e) IN
  upload' = [u EXCEPT !.pc = "rejected", !.err = uploadError, !.presigned = resp]
UploadRejects(u, e, resp) ==
  LET uploadError == IF e.name = "UploadError" THEN e ELSE wrapUnknownError(e) IN
  upload' = [u EXCEPT !.pc = "rejected", !.err = uploadError,
                      !.onError = @ + 1, !.errorArg = uploadError,
                      !.presigned = resp]

\* VocaFuseUploader.notifyProgress(), with a progress callback configured
notifyProgress(u, percentage) == [u EXCEPT !.progress = percentage]

\* the percentage of a progress event of uploadSingle():
\* 10 + (loaded / total) * 80
SingleProgress(loaded, total) ==
  [num |-> 10 * total + loaded * 80, den |-> total]

\* the percentage of a progress event of uploadPart():
\* ((partIndex + loaded / total) / totalParts) * 80 + 10
PartProgress(partIndex, loaded, total, totalParts) ==
  [num |-> (partIndex * total + loaded) * 80 + 10 * total * totalParts,
   den |-> total * totalParts]

PercentLeq(a, b) == a.num * b.den <= b.num * a.den

\* lines 102-116 of upload(), then lines 90-91 of VoiceRecorder.stop()
UploadResolves(resp) ==
  /\ upload' = [notifyProgress(upload, Percent(100))
                  EXCEPT !.pc = "resolved", !.result = "uploadResult",
                         !.onComplete = @ + 1, !.completeArg = "uploadResult",
                         !.presigned = resp]
  /\ state' = "uploaded"

\* VoiceRecorder.stop() line 89: upload() up to the await on getToken()
UploaderUploadCall ==
  /\ upload.pc = "idle"
  /\ state = "uploading"
  /\ upload' = [notifyProgress(upload, Percent(0)) EXCEPT !.pc = "token"]
  /\ UNCHANGED <<state, recRest, tokVars, httpVars, now, uploadParts>>

\* TokenManager.getToken() settled
UploaderTokenSettles(ok) ==
  /\ upload.pc = "token"
  /\ IF ok
     THEN upload' = [upload EXCEPT !.pc = "presign"]
     ELSE UploadRejects(upload, requestPresignedUrlCatch(
            RaisedError("AuthenticationError", "Failed to fetch token from endpoint")), NoPresign)
  /\ UNCHANGED <<state, recRest, tokVars, httpVars, now, uploadParts>>

\* what HttpClient.request('/upload') can settle with: an error, or
\* response.data (n = 0: no upload_info; "absent": data without upload_type;
\* "null": data is null)
UploaderPresignOutcomes ==
  {[kind |-> "error", cause |-> c, type |-> "none", url |-> FALSE, n |-> 0] :
     c \in {"NetworkError", "VocaFuseError"}}
  \cup {[kind |-> "data", cause |-> "none", type |-> "single", url |-> u, n |-> 0] : u \in BOOLEAN}
  \cup {[kind |-> "data", cause |-> "none", type |-> "multipart", url |-> FALSE, n |-> k] :
     k \in 0..MaxUploadParts}
  \cup {[kind |-> "data", cause |-> "none", type |-> t, url |-> FALSE, n |-> 0] : t \in {"absent", "null"}}

\* the guards of uploadSingle() (line 163) and uploadMultipart() (line 187)
\* and the number of PUTs they go on to send
TransferPlan_Unchecked(d) ==
  IF d.type = "single" THEN [err |-> "none", n |-> 1] ELSE [err |-> "none", n |-> d.n]
TransferPlan(d) ==
  IF d.type = "single"
  THEN IF d.url THEN [err |-> "none", n |-> 1]
       ELSE [err |-> "No presigned URL provided for single upload", n |-> 0]
  ELSE IF d.n = 0 THEN [err |-> "No multipart upload info provided", n |-> 0]
       ELSE [err |-> "none", n |-> d.n]

PartPending == [ev |-> "pending", status |-> 0]

\* parts.map(...) of uploadMultipart(): how many XMLHttpRequests are sent
\* before the await on Promise.all
PartsSent_OneAtATime(n) == IF n > 0 THEN 1 ELSE 0
PartsSent(n) == n

\* request('/upload') settled: the rest of requestPresignedUrl(), lines
\* 94-99 of upload(), uploadSingle() / uploadMultipart() up to their await
UploaderPresignSettles(resp) ==
  /\ upload.pc = "presign"
  /\ resp \in UploaderPresignOutcomes
  /\ IF resp.kind = "error"
     THEN /\ UploadRejects(upload, requestPresignedUrlCatch(RaisedError(resp.cause, "request failed")), resp)
          /\ UNCHANGED <<state, uploadParts>>
     ELSE IF resp.type = "null"
     THEN /\ UploadRejects(notifyProgress(upload, Percent(10)),
                           RaisedError("TypeError", "Cannot read properties of null"), resp)
          /\ UNCHANGED <<state, uploadParts>>
     ELSE LET plan == TransferPlan(resp) IN
          IF plan.err # "none"
          THEN /\ UploadRejects(notifyProgress(upload, Percent(10)),
                                RaisedError("UploadError", plan.err), resp)
               /\ UNCHANGED <<state, uploadParts>>
          ELSE /\ uploadParts' = [k \in 1..plan.n |->
                                    IF k <= PartsSent(plan.n) THEN PartPending
                                    ELSE [ev |-> "unsent", status |-> 0]]
               /\ IF plan.n = 0
                  THEN UploadResolves(resp)
                  ELSE /\ upload' = [notifyProgress(upload, Percent(10))
                                         EXCEPT !.pc = "put", !.type = resp.type,
                                                !.putsIssued = PartsSent(plan.n),
                                                !.presigned = resp,
                                                !.loaded = [k \in 1..plan.n |-> 0]]
                       /\ UNCHANGED state
  /\ UNCHANGED <<recRest, tokVars, httpVars, now>>

\* how the XMLHttpRequest of a PUT can end
PutEvents ==
  {[ev |-> "load", status |-> st] : st \in {200, 299, 300, 500}}
  \cup {[ev |-> e, status |-> 0] : e \in {"error", "timeout"}}

\* the status test of the 'load' listeners (lines 174, 209)
IsSuccessStatus_AtLeast200(st) == st >= 200
IsSuccessStatus(st) == st >= 200 /\ st < 300

PutSucceeded(e) == e.ev = "load" /\ IsSuccessStatus(e.status)

\* the error a PUT is rejected with (lines 175-178, 210-213)
PutError(e) ==
  IF e.ev = "load" THEN RaisedError("UploadError", "upload failed with status")
  ELSE IF e.ev = "error" THEN RaisedError("NetworkError", "Network error during upload")
  ELSE RaisedError("NetworkError", "upload timed out")

\* a 'progress' event of the XMLHttpRequest of part p, loaded bytes of
\* MaxLoaded sent (lines 166-171, 201-207)
PutProgress(p, loaded) ==
  /\ p \in 1..Len(uploadParts)
  /\ uploadParts[p] = PartPending
  /\ loaded \in 1..MaxLoaded
  /\ loaded > upload.loaded[p]
  /\ upload' = [notifyProgress(upload,
                   IF upload.type = "single"
                   THEN SingleProgress(loaded, MaxLoaded)
                   ELSE PartProgress(p - 1, loaded, MaxLoaded, Len(uploadParts)))
                  EXCEPT !.loaded[p] = loaded]
  /\ UNCHANGED <<state, uploadParts, recRest, tokVars, httpVars, now>>

\* the XMLHttpRequest of part p ends
PutSettles(p, e) ==
  /\ p \in 1..Len(uploadParts)
  /\ uploadParts[p] = PartPending
  /\ e \in PutEvents
  /\ LET parts == [uploadParts EXCEPT ![p] = e] IN
     IF upload.pc # "put"
     THEN \* Promise.all has already rejected: nobody listens
          /\ uploadParts' = parts
          /\ UNCHANGED <<upload, state>>
     ELSE IF ~PutSucceeded(e)
     THEN /\ uploadParts' = parts
          /\ UploadRejects(upload, PutError(e), upload.presigned)
          /\ UNCHANGED state
     ELSE IF \A k \in 1..Len(parts) : PutSucceeded(parts[k])
     THEN /\ uploadParts' = parts
          /\ UploadResolves(upload.presigned)
     ELSE /\ uploadParts' = parts
          /\ UNCHANGED <<upload, state>>
  /\ UNCHANGED <<recRest, tokVars, httpVars, now>>

NextUpload ==
  \/ UploaderUploadCall
  \/ \E ok \in BOOLEAN : UploaderTokenSettles(ok)
  \/ \E resp \in UploaderPresignOutcomes : UploaderPresignSettles(resp)
  \/ \E p \in 1..MaxUploadParts, loaded \in 1..MaxLoaded : PutProgress(p, loaded)
  \/ \E p \in 1..MaxUploadParts, e \in PutEvents : PutSettles(p, e)

SpecUpload == InitUpload /\ [][NextUpload]_vars

\* =====================================================================
\* Properties
\* =====================================================================
UploadPcs == {"upToken", "upPresign", "upPut"}

\* the onStateChange notifications frame i issues in the current step
NewEmissions(i) ==
  LET old == IF i <= Len(calls) THEN calls[i].emitted ELSE <<>>
      new == calls'[i].emitted
  IN  SubSeq(new, Len(old) + 1, Len(new))

\* the changes of the state value made in the current step, in order, as
\* pairs <<value before setState, value set>>
StepTransitions ==
  UNION {LET e == NewEmissions(i) IN
         {<<IF k = 1 THEN state ELSE e[k - 1], e[k]>> : k \in 1..Len(e)}
         : i \in 1..Len(calls')}

\* frame i was pending before the step and is rejected after it
RejectedNow(i) ==
  /\ i <= Len(calls) /\ calls[i].pc # "done"
  /\ calls'[i].pc = "done" /\ calls'[i].err # "none"

\* C1: start() is accepted only in 'idle' and stop() only in 'recording';
\* in every other state the call is rejected with RECORDING_FAILED, the
\* state value and the capture session stay as they are and onStateChange
\* is not invoked.
C1_GuardClauses ==
  [][Len(calls') = Len(calls) + 1 =>
       LET f == calls'[Len(calls')] IN
       /\ (f.op = "start" /\ state # "idle") \/ (f.op = "stop" /\ state # "recording")
            => /\ f.pc = "done" /\ f.err = "RECORDING_FAILED"
               /\ f.emitted = <<>>
               /\ state' = state
               /\ UNCHANGED audioVars
       /\ (f.op = "start" /\ f.err = "none") => state = "idle"
       /\ (f.op = "stop" /\ f.err = "none") => state = "recording"]_vars

C1_Witness ==
  /\ Len(calls) = 3
  /\ calls[1].op = "stop" /\ calls[1].err = "RECORDING_FAILED" /\ calls[1].from = "idle"
  /\ calls[2].op = "start" /\ calls[2].err = "none"
  /\ calls[3].op = "start" /\ calls[3].err = "RECORDING_FAILED" /\ calls[3].from = "recording"
  /\ calls[3].emitted = <<>>
  /\ mediaRecorder # 0 /\ progressTimer

C4_CancelResets ==
  [][\A i \in 1..Len(calls) :
       (calls[i].op = "cancel" /\ calls[i].from # "idle"
        /\ calls[i].pc = "cancelAwait" /\ calls'[i].pc = "done")
         => /\ state' = "idle"
            /\ mediaRecorder' = 0
            /\ mediaStream' = 0
            /\ \A k \in Ids : ~tracksLive'[k]
            /\ ~progressTimer'
            /\ recordingResult' = <<>>
            /\ duration' = 0]_vars

LifecycleEdges ==
  {<<"idle", "recording">>, <<"recording", "stopped">>,
   <<"stopped", "uploading">>, <<"uploading", "uploaded">>}
  \cup {<<x, "idle">> : x \in {"recording", "stopped", "uploading", "uploaded"}}

\* C5: every change of the state value follows an edge of the lifecycle graph
\* idle->recording->stopped->uploading->uploaded, X->idle for a non-idle X.
C5_LifecycleOnly ==
  [][\A t \in StepTransitions : t[1] # t[2] => t \in LifecycleEdges]_vars

\* C6: cancel() on an idle controller invokes no onStateChange and tears
\* nothing down, and onStateChange is never invoked for a transition that
\* leaves the state value unchanged.
C6_NoNotificationOnNoop ==
  [][/\ \A t \in StepTransitions : t[1] # t[2]
     /\ \A i \in 1..Len(calls) :
          (calls[i].op = "cancel" /\ calls[i].from = "idle"
           /\ calls[i].pc = "cancelAwait" /\ calls'[i].pc = "done")
            => calls'[i].emitted = <<>>]_vars

\* C7: when microphone acquisition, capture finalization or the transfer
\* fails, the call is rejected with the failure and the state keeps the
\* value it had at the failure; no onStateChange follows.
C7_FailureKeepsState ==
  [][/\ \A i \in 1..Len(calls) :
          RejectedNow(i) =>
            /\ state' = state
            /\ calls'[i].emitted = calls[i].emitted
            /\ calls[i].pc = "getUserMedia" =>
                 calls'[i].err \in {"MICROPHONE_ACCESS_DENIED", "RECORDING_NOT_SUPPORTED", "UNKNOWN_ERROR"}
            /\ calls[i].pc = "flush" => calls'[i].err = "UNKNOWN_ERROR"
            /\ calls[i].pc \in UploadPcs =>
                 /\ calls'[i].err \in {"UPLOAD_FAILED", "NETWORK_ERROR"}
                 /\ calls'[i].emitted = <<"stopped", "uploading">>
     /\ \A i \in 1..Len(calls) :
          (calls[i].pc = "done" /\ calls[i].err # "none") => calls'[i] = calls[i]]_vars

C7_Witness ==
  /\ state = "uploading"
  /\ Len(calls) = 2
  /\ calls[2].op = "stop" /\ calls[2].pc = "done" /\ calls[2].err = "NETWORK_ERROR"
  /\ calls[2].emitted = <<"stopped", "uploading">>

\* C8: a MediaRecorder 'error' event during recording reaches the
\* controller's error path (onError or a rejected call) and is not left as
\* an unhandled background rejection.
C8_DeviceErrorReachesController ==
  "RECORDING_FAILED" \notin unhandled

\* C9: a recording that is left running is stopped at the first progress
\* tick whose elapsed time is >= maxDuration: the recorder is inactive and
\* the timer stopped, the elapsed time at that tick lies in
\* [maxDuration, maxDuration + 200 ms), and onProgress never receives a
\* value >= maxDuration.
C9_AutoStopAtLimit ==
  [][/\ duration' < maxDuration
     /\ \A m \in Ids :
          (autoStop[m].pc = "none" /\ autoStop'[m].pc # "none")
            => /\ mrState[m] = "recording" /\ mrState'[m] = "inactive"
               /\ mediaRecorder' = m
               /\ ~progressTimer'
               /\ autoStopElapsed' = now - startTime
               /\ autoStopElapsed' >= maxDuration
               /\ autoStopElapsed' < maxDuration + 2 * TimerInterval
     /\ (progressTimer /\ progressTimer' /\ timerDue' > timerDue /\ startTime' = startTime
         /\ mediaRecorder # 0 /\ mrState[mediaRecorder] = "recording")
          => now - startTime < maxDuration]_vars

C9_Witness ==
  /\ autoStopElapsed > maxDuration
  /\ \E m \in Ids : autoStop[m].pc = "done" /\ mrState[m] = "inactive"
  /\ mediaRecorder = 0 /\ mediaStream = 0 /\ ~progressTimer
  /\ duration > 0

\* C10: an auto-stop at maxDuration is reported to the owner of the recorder
\* as RECORDING_TOO_LONG (through onError or a rejected call).
C10_TooLongReported ==
  (\E m \in Ids : autoStop[m].pc = "done")
    => \/ "RECORDING_TOO_LONG" \in onErrorLog
       \/ \E i \in 1..Len(calls) : calls[i].err = "RECORDING_TOO_LONG"

\* C11: elapsed time is continuous across pause/resume: a pause() issued
\* while the MediaRecorder records is accepted, freezes the elapsed value at
\* its value at the call and stops the progress ticks; resume() continues
\* from the frozen value.
C11_PauseFreezesElapsed ==
  [][Len(calls') = Len(calls) + 1 =>
       LET f == calls'[Len(calls')] IN
       /\ (f.op = "pause" /\ mediaRecorder # 0 /\ mrState[mediaRecorder] = "recording")
            => /\ f.err = "none"
               /\ mrState'[mediaRecorder] = "paused"
               /\ pausedTime' = now - startTime
               /\ ~progressTimer'
       /\ (f.op = "resume" /\ mediaRecorder # 0 /\ mrState[mediaRecorder] = "paused")
            => /\ f.err = "none"
               /\ now - startTime' = pausedTime]_vars

\* the calls into AudioRecorder that end in the current step: a failing
\* start(), a stop() (resolved or rejected), a cancel()
OthersSettled(i) ==
  \A j \in 1..Len(calls) : j # i => calls[j].pc \in {"done", "upToken", "upPresign", "upPut"}

AudioExitNow ==
  \/ \E i \in 1..Len(calls) :
       /\ calls[i].pc \in {"getUserMedia", "flush", "cancelAwait"}
       /\ calls'[i].pc # calls[i].pc
       /\ calls[i].pc = "getUserMedia" => calls'[i].err # "none"
       /\ OthersSettled(i)
  \/ /\ Len(calls') = Len(calls) + 1
     /\ OthersSettled(0)
     /\ LET f == calls'[Len(calls')] IN
        /\ f.pc = "done" /\ f.err # "none"
        /\ \/ f.op = "start" /\ f.from = "idle"
           \/ f.op = "stop" /\ f.from = "recording"

\* C12: after every exit of AudioRecorder.start() (failure), stop() and
\* cancel() the device is released: no media stream is held and no track is
\* live, no MediaRecorder is held and no progress timer runs.  (Calls into
\* the recorder that overlap another pending call are left out.)
C12_DeviceReleasedOnExit ==
  [][AudioExitNow =>
       /\ mediaStream' = 0
       /\ \A k \in Ids : ~tracksLive'[k]
       /\ mediaRecorder' = 0
       /\ ~progressTimer']_vars

InFlight == {f \in 1..Len(tokenFetches) : tokenFetches[f] = "inflight"}

\* C13: callers of getToken() that overlap while no valid token is cached
\* share one request: at no time is more than one token fetch in flight, and
\* every such caller receives the token of that one fetch.
C13_OneFetchInFlight ==
  /\ Cardinality(InFlight) <= 1
  /\ \A i, j \in 1..Len(tokenCalls) :
       (tokenCalls[i].op = "getToken" /\ tokenCalls[j].op = "getToken"
        /\ tokenCalls[i].pc = "fetching" /\ tokenCalls[j].pc = "fetching")
         => tokenCalls[i].fetch = tokenCalls[j].fetch

\* C14: getToken() answers from the cache, without a request, exactly when a
\* token is cached and now + refreshBuffer < expiresAt; otherwise (equality
\* included) it sends a request.
C14_CacheHitIffValid ==
  [][(Len(tokenCalls') = Len(tokenCalls) + 1 /\ tokenCalls'[Len(tokenCalls')].op = "getToken") =>
       LET f == tokenCalls'[Len(tokenCalls')]
           fresh == tokenCache # <<>> /\ now + 300 * 1000 < tokenCache[1].expiresAt
       IN
       /\ fresh => /\ f.pc = "done" /\ f.err = "none"
                   /\ f.value = tokenCache[1].jwt
                   /\ tokenFetches' = tokenFetches
       /\ ~fresh => /\ f.pc = "fetching"
                    /\ Len(tokenFetches') = Len(tokenFetches) + 1
                    /\ tokenFetches'[f.fetch] = "inflight"]_vars

C14_Witness ==
  \E i, j \in 1..Len(tokenCalls) :
    /\ tokenCalls[i].op = "getToken" /\ tokenCalls[i].fetch = 0 /\ tokenCalls[i].pc = "done"
    /\ tokenCalls[i].cache # <<>>
    /\ tokenCalls[i].cache[1].expiresAt = tokenCalls[i].at + 300 * 1000 + 1000
    /\ tokenCalls[j].op = "getToken" /\ tokenCalls[j].fetch # 0
    /\ tokenCalls[j].cache # <<>>
    /\ tokenCalls[j].cache[1].expiresAt = tokenCalls[j].at + 300 * 1000

\* C15: a failed token fetch rejects getToken() with an AuthenticationError,
\* not retryable, after the one request of that call; the cached credential
\* stays as it was.
C15_FetchFailureRejects ==
  [][\A i \in 1..Len(tokenCalls) :
       (tokenCalls[i].op = "getToken" /\ tokenCalls[i].pc = "fetching"
        /\ tokenFetches'[tokenCalls[i].fetch] = "failed")
         => /\ tokenCalls'[i].pc = "done"
            /\ tokenCalls'[i].err = "AuthenticationError"
            /\ ~ErrorRetryable(tokenCalls'[i].err)
            /\ Len(tokenFetches') = Len(tokenFetches)
            /\ tokenCache' = tokenCache
            /\ actualJwtToken' = actualJwtToken]_vars

C15_Witness ==
  \E i \in 1..Len(tokenCalls) :
    /\ tokenCalls[i].op = "getToken" /\ tokenCalls[i].err = "AuthenticationError"
    /\ tokenFetches[tokenCalls[i].fetch] = "failed"
    /\ tokenCalls[i].cache # <<>>
    /\ tokenCache = tokenCalls[i].cache
    /\ actualJwtToken # 0

\* an attempt of request() ended in failure in this step
AttemptEndsInError ==
  /\ request.pc = "fetching"
  /\ request'.pc \in {"sleeping", "rejected"}

\* C16: after a failed attempt n, request() makes another attempt exactly
\* when n < maxAttempts and the error is retryable (stated here for network
\* errors, whose retryable flag shouldRetry() reads, and for calls that take
\* maxAttempts = maxRetries + 1 from the client's configuration).
C16_RetryWhileAttemptsRemain ==
  [][(/\ AttemptEndsInError
      /\ request'.lastError.name = "NetworkError"
      /\ request.maxAttempts = retryOptions.maxRetries + 1) =>
       (request'.pc = "sleeping"
          <=> (request.attempt < request.maxAttempts /\ request'.lastError.retryable))]_vars

\* C17: a 429 or 5xx response is retried when attempts remain.
C17_ServerErrorRetried ==
  [][(/\ AttemptEndsInError
      /\ request'.lastError.kind = "http"
      /\ (request'.lastError.status = 429 \/ request'.lastError.status >= 500)
      /\ request.attempt < request.maxAttempts
      /\ request.attempt < retryOptions.maxRetries)
       => request'.pc = "sleeping"]_vars

\* C18: an attempt aborted by the timeout timer is retried when attempts
\* remain.
C18_TimeoutRetried ==
  [][(/\ AttemptEndsInError
      /\ controller.aborted /\ controller.by = "timer"
      /\ request.attempt < request.maxAttempts
      /\ request.attempt < retryOptions.maxRetries)
       => request'.pc = "sleeping"]_vars

\* C19: a 4xx response other than 429, a response that cannot be parsed, and
\* any error flagged non-retryable end request() with that attempt: no sleep
\* and no further fetch follow.
C19_NonRetryableEndsRequest ==
  [][/\ (/\ AttemptEndsInError
         /\ LET e == request'.lastError IN
            \/ e.kind = "http" /\ e.status \in 400..499 /\ e.status # 429
            \/ e.kind = "parse"
            \/ ~e.retryable)
        => /\ request'.pc = "rejected"
           /\ request'.attempt = request.attempt
           /\ request'.fetches = request.fetches
           /\ request'.sleeps = request.sleeps
     /\ request.pc = "rejected" => request' = request]_vars

C19_Witness ==
  /\ request.pc = "rejected"
  /\ request.attempt = 1 /\ request.fetches = 1 /\ request.sleeps = 0
  /\ request.maxAttempts > 1 /\ retryOptions.maxRetries > 1
  /\ request.lastError.kind = "parse"
  /\ request.lastError.status = 200

\* C20: every attempt in flight is bounded by a timeout of its own: unless
\* already aborted, a timer is armed for it, due timeoutMs after the attempt
\* started.
C20_AttemptHasOwnTimeout ==
  (request.pc = "fetching" /\ ~controller.aborted)
    => /\ controller.timerArmed
       /\ controller.timerDue = request.attemptStart + request.timeout

\* the delay of calculateRetryDelay() before jitter and cap
RawDelay(n) == retryOptions.baseDelay * Pow(retryOptions.backoffFactor, n - 1)

\* C21: the delay slept after failed attempt n is at least
\* baseDelay * backoffFactor^(n-1) capped at maxDelay, that uncapped value
\* does not decrease with n, and the delay slept never exceeds maxDelay.
C21_BackoffMonotoneAndCapped ==
  [][(request.pc = "fetching" /\ request'.pc = "sleeping") =>
       LET n == request.attempt
           slept == request'.sleepDue - now
       IN /\ slept <= retryOptions.maxDelay
          /\ slept >= (IF RawDelay(n) < retryOptions.maxDelay THEN RawDelay(n) ELSE retryOptions.maxDelay)
          /\ slept <= RawDelay(n) + RawDelay(n) \div 10
          /\ \A k \in 1..n : RawDelay(k) <= RawDelay(n)]_vars

C21_Witness ==
  /\ request.pc = "sleeping"
  /\ request.sleeps = 2
  /\ RawDelay(request.attempt) > RawDelay(1)
  /\ RawDelay(request.attempt) > retryOptions.maxDelay
  /\ request.sleepDue - now = retryOptions.maxDelay

\* C22: a 2xx body without `data` resolves to {object: 'response', data:
\* body, request_id: header or 'unknown'}, a body with `data` resolves
\* unchanged, and normalizing the result again changes nothing.
C22_EnvelopeNormalized ==
  [][(request.pc = "fetching" /\ request'.pc = "resolved") =>
       LET got == request'.received
           res == request'.result
       IN /\ got.body = "envelope" => res = RawBody("envelope")
          /\ got.body # "envelope" =>
               /\ res.wrapped /\ res.object = "response" /\ res.body = got.body
               /\ res.request_id = (IF got.requestId = "" THEN "unknown" ELSE got.requestId)
          /\ \A r \in {"", "req-1", "req-2"} : normalizeBody(res, r) = res]_vars

C22_Witness ==
  /\ request.pc = "resolved"
  /\ request.received = [body |-> "text", requestId |-> ""]
  /\ request.result.wrapped
  /\ request.result.request_id = "unknown"

\* part p ended in this step with a status outside [200,300)
PartStatusFailure(p) ==
  /\ p \in 1..Len(uploadParts)
  /\ uploadParts[p] = PartPending
  /\ uploadParts'[p].ev = "load"
  /\ ~(uploadParts'[p].status >= 200 /\ uploadParts'[p].status < 300)

BadStatusPart ==
  \E p \in 1..Len(uploadParts) :
    uploadParts[p].ev = "load" /\ ~(uploadParts[p].status >= 200 /\ uploadParts[p].status < 300)

C24_OneCompletionCallback ==
  /\ upload.pc \in {"idle", "token", "presign", "put"} => upload.onComplete = 0 /\ upload.onError = 0
  /\ upload.pc = "resolved" => /\ upload.onComplete = 1 /\ upload.onError = 0
                               /\ upload.result # "none" /\ upload.completeArg = upload.result
  /\ upload.pc = "rejected" => /\ upload.onError = 1 /\ upload.onComplete = 0
                               /\ upload.err # NoUploadError /\ upload.errorArg = upload.err

C24_Witness ==
  /\ upload.pc = "rejected" /\ upload.onError = 1
  /\ \E p, q \in 1..Len(uploadParts) :
       /\ p # q
       /\ uploadParts[p].ev \in {"error", "timeout"}
       /\ uploadParts[q].ev = "load" /\ uploadParts[q].status = 500

\* C25: when the credential or the presign request fails, upload() rejects
\* with an UploadError (UPLOAD_FAILED) whose cause is that failure, and no
\* PUT is sent.
C25_PresignFailureWrapped ==
  [][(/\ upload'.pc = "rejected"
      /\ \/ upload.pc = "token"
         \/ upload.pc = "presign" /\ upload'.presigned.kind = "error")
       => /\ upload'.err.name = "UploadError"
          /\ upload'.err.code = "UPLOAD_FAILED"
          /\ upload'.err.cause = (IF upload.pc = "token" THEN "AuthenticationError"
                                  ELSE upload'.presigned.cause)
          /\ upload'.putsIssued = 0
          /\ uploadParts' = <<>>]_vars

C25_Witness ==
  /\ upload.pc = "rejected"
  /\ upload.err.name = "UploadError" /\ upload.err.cause = "AuthenticationError"
  /\ upload.putsIssued = 0 /\ uploadParts = <<>>

\* C26: a 'multipart' presign response without upload_info, or a 'single'
\* one without presigned_url, rejects upload() with an UploadError that
\* says which is missing, and no PUT is sent.
C26_MissingPlanRejected ==
  [][(/\ upload.pc = "presign"
      /\ upload'.presigned.kind = "data"
      /\ \/ upload'.presigned.type = "multipart" /\ upload'.presigned.n = 0
         \/ upload'.presigned.type = "single" /\ ~upload'.presigned.url)
       => /\ upload'.pc = "rejected"
          /\ upload'.err.name = "UploadError"
          /\ upload'.err.message = (IF upload'.presigned.type = "single"
                                    THEN "No presigned URL provided for single upload"
                                    ELSE "No multipart upload info provided")
          /\ upload'.putsIssued = 0
          /\ uploadParts' = <<>>]_vars

C26_Witness ==
  /\ upload.pc = "rejected"
  /\ upload.presigned.type = "multipart" /\ upload.presigned.n = 0
  /\ upload.err.message = "No multipart upload info provided"
  /\ upload.putsIssued = 0

\* C27: the PUTs of all parts are sent in the step that starts the transfer;
\* upload() resolves only with every part answered 2xx; the first failing
\* part rejects it in that step, leaving the other parts as they are, and no
\* PUT is ever sent again.
C27_PartsFanOutFanIn ==
  [][/\ (upload.pc = "presign" /\ upload'.pc = "put")
        => /\ Len(uploadParts') = (IF upload'.presigned.type = "single" THEN 1 ELSE upload'.presigned.n)
           /\ \A k \in 1..Len(uploadParts') : uploadParts'[k] = PartPending
           /\ upload'.putsIssued = Len(uploadParts')
     /\ upload'.pc = "resolved"
        => \A k \in 1..Len(uploadParts') :
             /\ uploadParts'[k].ev = "load"
             /\ uploadParts'[k].status >= 200 /\ uploadParts'[k].status < 300
     /\ upload.pc = "put"
        => /\ upload'.putsIssued = upload.putsIssued
           /\ \A p \in 1..Len(uploadParts) :
                (uploadParts'[p] # uploadParts[p] /\ ~PutSucceeded(uploadParts'[p]))
                  => /\ upload'.pc = "rejected"
                     /\ \A k \in 1..Len(uploadParts) : k # p => uploadParts'[k] = uploadParts[k]
     /\ upload.pc \in {"rejected", "resolved"}
        => /\ upload'.pc = upload.pc /\ upload'.err = upload.err
           /\ upload'.result = upload.result
           /\ upload'.onComplete = upload.onComplete /\ upload'.onError = upload.onError
           /\ upload'.putsIssued = upload.putsIssued]_vars

C27_Witness ==
  /\ upload.pc = "rejected"
  /\ Len(uploadParts) = 3 /\ upload.putsIssued = 3
  /\ uploadParts[1] = [ev |-> "load", status |-> 200]
  /\ uploadParts[2] = [ev |-> "error", status |-> 0]
  /\ uploadParts[3] = PartPending

\* C28: the caller's AbortSignal and the timeout both stay in force: the
\* signal firing during an attempt aborts it, and with a signal given no
\* attempt stays in flight, unaborted, beyond timeoutMs after its start.
C28_SignalComposesWithTimeout ==
  [][/\ (request.pc = "fetching" /\ controller.signal /\ ~controller.aborted
         /\ controller'.by = "external")
        => controller'.aborted
     /\ (request.pc = "fetching" /\ controller.signal /\ ~controller.aborted
         /\ request'.pc = "fetching" /\ ~controller'.aborted)
        => now' <= request.attemptStart + request.timeout]_vars

\* C29: the error request() throws is the error of the last attempt, and its
\* context holds the URL, the method and the number of attempts made.
C29_ThrownErrorAnnotated ==
  [][(request.pc = "fetching" /\ request'.pc = "rejected") =>
       /\ request'.thrown.error.kind = request'.lastError.kind
       /\ request'.thrown.error.status = request'.lastError.status
       /\ {"url", "method", "attempts"} \subseteq request'.thrown.context
       /\ request'.thrown.attempts = request.attempt]_vars

\* C30: a start() that fails on a denied permission raises
\* MICROPHONE_ACCESS_DENIED, one that fails on a missing device or an
\* unsupported environment raises RECORDING_NOT_SUPPORTED; never
\* UNKNOWN_ERROR or RECORDING_FAILED. (Both codes are raised as
\* VoicenoteError, whose retryable flag is false.)
C30_StartFailureClassified ==
  [][\A i \in 1..Len(calls) :
       (calls[i].op = "start" /\ calls[i].pc = "getUserMedia" /\ calls'[i].pc = "done"
        /\ calls'[i].cause # "none")
         => /\ calls'[i].cause = "NotAllowedError" => calls'[i].err = "MICROPHONE_ACCESS_DENIED"
            /\ calls'[i].cause \in {"NotFoundError", "NotSupportedError", "TypeError"}
                 => calls'[i].err = "RECORDING_NOT_SUPPORTED"
            /\ calls'[i].err \notin {"UNKNOWN_ERROR", "RECORDING_FAILED"}]_vars

\* no start(), stop() or cancel() call and no timer-issued stop is under way
RecorderQuiescent ==
  /\ \A i \in 1..Len(calls) : calls[i].pc = "done"
  /\ \A m \in Ids : autoStop[m].pc \in {"none", "done"}

\* C31: whenever the controller is 'recording' and no call is in progress,
\* the AudioRecorder holds a MediaRecorder that is recording or paused.
C31_RecordingMeansCapturing ==
  (state = "recording" /\ RecorderQuiescent)
    => /\ mediaRecorder # 0
       /\ mrState[mediaRecorder] \in {"recording", "paused"}

\* stop() calls made before a cancel() that has since resolved, and still
\* pending
StopsOutlivingCancel ==
  {i \in 1..Len(calls) :
     /\ calls[i].op = "stop" /\ calls[i].pc # "done"
     /\ \E c \in 1..Len(calls) : c > i /\ calls[c].op = "cancel" /\ calls[c].pc = "done"}

\* C32: after cancel() has resolved, a stop() that was pending when cancel()
\* ran changes neither the controller state nor the set of requests sent, and
\* announces no state.
C32_CancelledCaptureNotUploaded ==
  [][\A i \in StopsOutlivingCancel :
       calls'[i] # calls[i]
         => /\ state' = state
            /\ issued' = issued
            /\ calls'[i].emitted = calls[i].emitted
            /\ calls'[i].value = "none"]_vars

\* the owner called pause() on the MediaRecorder in use while it recorded
\* and has not called resume() since
PauseRequested ==
  /\ mediaRecorder # 0
  /\ \E p \in 1..Len(calls) :
       /\ calls[p].op = "pause" /\ calls[p].mr = mediaRecorder
       /\ \A r \in (p + 1)..Len(calls) : calls[r].op # "resume"

\* the duration handleStop() puts into the artifact (line 220)
ArtifactDuration == now - startTime

\* C33: time that passes after pause() is not counted: as long as the
\* recording is paused, the duration stop() would return does not grow.
C33_PausedTimeNotCounted ==
  [][(PauseRequested /\ PauseRequested' /\ mediaRecorder' = mediaRecorder /\ now' > now)
       => ArtifactDuration' = ArtifactDuration]_vars


\* C34: AudioRecorder.start() invoked while a recording is active or paused
\* fails and leaves the ongoing session as it was: the stream and its tracks,
\* the MediaRecorder, the progress timer, the start reference and the chunks.
AudioStartWhileActive ==
  /\ StartGuard(state)
  /\ AudioState # INACTIVE
  /\ Len(calls') = Len(calls) + 1
  /\ calls'[Len(calls')].op = "start"

C34_StartWhileActiveKeepsSession ==
  [][AudioStartWhileActive
       => /\ calls'[Len(calls')].err = "RECORDING_FAILED"
          /\ UNCHANGED <<mediaRecorder, mediaStream, tracksLive, chunks,
                         startTime, progressTimer, timerDue>>]_vars


\* TokenManager.getTokenInfo()
getTokenInfo ==
  IF actualJwtToken = 0 \/ tokenCache = <<>> \/ ~isTokenValid
  THEN [isValid |-> FALSE, expiresAt |-> 0]
  ELSE [isValid |-> TRUE, expiresAt |-> tokenCache[1].expiresAt]

\* the token requests issued after call c: no call up to c started or awaited
\* them
FetchesAfter(c) ==
  {f \in 1..Len(tokenFetches) : \A i \in 1..c : tokenCalls[i].fetch # f}

\* C35: after clearToken() no credential is cached, and getTokenInfo()
\* reports isValid = false, until a token request that started after the
\* clear has completed; a request in flight at the clear does not repopulate
\* the cache.
C35_ClearedUntilLaterFetch ==
  \A c \in 1..Len(tokenCalls) :
    (tokenCalls[c].op = "clearToken"
     /\ \A f \in FetchesAfter(c) : tokenFetches[f] # "ok")
      => /\ tokenCache = <<>>
         /\ actualJwtToken = 0
         /\ ~getTokenInfo.isValid


\* C36: within one upload() the percentages handed to the progress callback
\* never decrease: the first one is 0, those of the byte transfer lie within
\* [10, 90], the one of a completed upload is 100, for a single upload and
\* for a multipart upload whose parts progress in any interleaving.
C36_ProgressMonotone ==
  [][(upload.pc \in {"idle", "token", "presign", "put"} /\ upload'.progress # upload.progress)
       => /\ upload.progress = NoProgress => upload'.progress = Percent(0)
          /\ upload.progress # NoProgress => PercentLeq(upload.progress, upload'.progress)
          /\ upload'.loaded # upload.loaded /\ upload.pc = "put"
               => /\ PercentLeq(Percent(10), upload'.progress)
                  /\ PercentLeq(upload'.progress, Percent(90))
          /\ upload'.pc = "resolved" => upload'.progress = Percent(100)]_vars


\* the step is a call of one of the operations in ops
NewCall(ops) ==
  /\ Len(calls') = Len(calls) + 1
  /\ calls'[Len(calls')].op \in ops

\* the guard of the operation rejected the call
RejectedByGuard(f) == f.pc = "done" /\ f.err = "RECORDING_FAILED"

\* only the continuation of a cancel() takes the controller back to 'idle'
IdleOnlyByCancel ==
  (state # "idle" /\ state' = "idle")
    => \E c \in 1..Len(calls) :
         calls[c].op = "cancel" /\ calls[c].pc # "done" /\ calls'[c].pc = "done"

\* a stop() called after the controller left 'idle' has resolved or
\* rejected, and cancel() has not been called since
StopSettledUncancelled ==
  \E j \in 1..Len(calls) :
    /\ calls[j].op = "stop" /\ calls[j].pc = "done" /\ calls[j].from # "idle"
    /\ \A k \in (j + 1)..Len(calls) : calls[k].op # "cancel"

\* C37: once the controller has left 'idle' only cancel() returns
\* it to 'idle', and after a stop() has completed or failed every start()
\* and stop() is rejected until cancel() is called.
C37_RejectedAfterAnyStop ==
  [][/\ IdleOnlyByCancel
     /\ (StopSettledUncancelled /\ state # "idle" /\ NewCall({"start", "stop"}))
          => RejectedByGuard(calls'[Len(calls')])]_vars


RequestSettled == request.pc \in {"resolved", "rejected"}

\* the loop of request(): attempts within the budget, a settled call is
\* final, a sleep begins only when another attempt is left and is followed
\* by that attempt
RequestLoopStep ==
  /\ request'.fetches <= request'.maxAttempts
  /\ RequestSettled' => /\ request'.fetches >= 1
                        /\ request'.sleeps = request'.fetches - 1
  /\ RequestSettled => request' = request
  /\ request'.sleeps # request.sleeps
       => /\ request'.sleeps = request.sleeps + 1
          /\ request'.pc = "sleeping"
          /\ request'.fetches < request'.maxAttempts
  /\ (request.pc = "sleeping" /\ request'.pc # "sleeping")
       => /\ request'.pc = "fetching"
          /\ request'.fetches = request.fetches + 1

\* C38: when every fetch attempt eventually completes or fails, request()
\* terminates: it resolves or throws after at least 1 and at most
\* (options.retries ?? maxRetries) + 1 attempts, makes no attempt after a
\* successful one, and sleeps only between two attempts, never after the
\* last one.
C38_RequestTerminates ==
  /\ [][RequestLoopStep]_vars
  /\ (request.pc = "fetching") ~> RequestSettled

C38_Witness ==
  /\ request.pc = "rejected"
  /\ request.fetches = request.maxAttempts
  /\ request.fetches >= 2
  /\ request.sleeps = request.fetches - 1

====
